---- MODULE Spec2Model ----
(***************************************************************************)
(* Model of the trend card generator: the TrendCard schema and its views,  *)
(* file persistence (TrendCard.save_to_file, fileio.append_to_filename,    *)
(* fileio.read_file), the Generator / Editor constructors, prompt          *)
(* formatting, and the two batch runners.                                  *)
(*                                                                         *)
(* Text is a sequence of one-character strings.  The character classes are *)
(* those of Python 3 `re` on str (\w, \s) and of str.lower / str.strip,    *)
(* restricted to ASCII.  Paths follow pathlib.PurePosixPath; os.linesep is *)
(* the POSIX one.                                                          *)
(***************************************************************************)
EXTENDS Integers, Sequences, FiniteSets, TLC

VARIABLES call, pc, ret, fs, readback, idx, seq_i, inflight, trace, out

vars == <<call, pc, ret, fs, readback, idx, seq_i, inflight, trace, out>>

(***************************************************************************)
(* Bounds of the model.                                                    *)
(***************************************************************************)
MaxIdLen == 3

MaxBatch == 3

(***************************************************************************)
(* Characters and text primitives.                                         *)
(***************************************************************************)
LowerLetters == <<"a","b","c","d","e","f","g","h","i","j","k","l","m",
                  "n","o","p","q","r","s","t","u","v","w","x","y","z">>

UpperLetters == <<"A","B","C","D","E","F","G","H","I","J","K","L","M",
                  "N","O","P","Q","R","S","T","U","V","W","X","Y","Z">>

Digits == <<"0","1","2","3","4","5","6","7","8","9">>

Range(f) == {f[i] : i \in DOMAIN f}

IsUpper(c) == c \in Range(UpperLetters)

IsLower(c) == c \in Range(LowerLetters)

IsLetter(c) == IsUpper(c) \/ IsLower(c)

\* \w of Python's re on str
IsWord(c) == IsLetter(c) \/ c \in Range(Digits) \/ c = "_"

\* \s of Python's re on str, and the characters str.strip() removes
IsSpace(c) == c \in {" ", "\t", "\n", "\r", "\f"}

LowerChar(c) ==
    IF IsUpper(c)
    THEN LowerLetters[CHOOSE i \in DOMAIN UpperLetters : UpperLetters[i] = c]
    ELSE c

UpperChar(c) ==
    IF IsLower(c)
    THEN UpperLetters[CHOOSE i \in DOMAIN LowerLetters : LowerLetters[i] = c]
    ELSE c

\* str.lower()
Lower(s) == [i \in 1..Len(s) |-> LowerChar(s[i])]

\* str.title(): a letter is upper-cased after a non-letter, lower-cased after a letter
Title(s) ==
    [i \in 1..Len(s) |->
        IF i = 1 \/ ~IsLetter(s[i-1]) THEN UpperChar(s[i]) ELSE LowerChar(s[i])]

\* str.replace(old, new) for single characters
Replace(s, old, new) == [i \in 1..Len(s) |-> IF s[i] = old THEN new ELSE s[i]]

RECURSIVE LStrip(_)
LStrip(s) ==
    IF s # <<>> /\ IsSpace(Head(s)) THEN LStrip(Tail(s)) ELSE s

RECURSIVE RStrip(_)
RStrip(s) ==
    IF s # <<>> /\ IsSpace(s[Len(s)]) THEN RStrip(SubSeq(s, 1, Len(s) - 1)) ELSE s

\* str.strip()
Strip(s) == RStrip(LStrip(s))

\* re.sub(r'[^\w\s]', ' ', s)
SubPunct(s) ==
    [i \in 1..Len(s) |-> IF ~IsWord(s[i]) /\ ~IsSpace(s[i]) THEN " " ELSE s[i]]

\* re.sub(r'\s+', '_', s)
RECURSIVE SubSpaces(_)
SubSpaces(s) ==
    IF s = <<>> THEN <<>>
    ELSE IF IsSpace(Head(s)) THEN <<"_">> \o SubSpaces(LStrip(s))
    ELSE <<Head(s)>> \o SubSpaces(Tail(s))

StartsWith(s, p) == Len(s) >= Len(p) /\ SubSeq(s, 1, Len(p)) = p

EndsWith(s, p) == Len(s) >= Len(p) /\ SubSeq(s, Len(s) - Len(p) + 1, Len(s)) = p

(***************************************************************************)
(* Values.                                                                 *)
(***************************************************************************)
\* Python's None: a one-element sequence whose element is not a character,
\* so that it differs from every text
None == <<"NoneType">>

\* Python truthiness of an Optional[str]
Truthy(v) == v # None /\ v # <<>>

\* the result of a call: the exception raised ("" when it returned), the
\* value returned and the filesystem it leaves
Returned(value, fsys) == [exc |-> "", value |-> value, fs |-> fsys]

Raised(exc, fsys) == [exc |-> exc, value |-> None, fs |-> fsys]

(***************************************************************************)
(* pathlib.PurePosixPath, as far as append_to_filename and save_to_file    *)
(* use it.  Paths that start with "//" are not modelled.                   *)
(***************************************************************************)
IndexOf(s, c) ==
    IF c \in Range(s) THEN CHOOSE i \in DOMAIN s : s[i] = c /\ \A j \in 1..(i-1) : s[j] # c
    ELSE 0

\* str.rfind(c), 1-based, 0 when absent
RFind(s, c) ==
    IF c \in Range(s) THEN CHOOSE i \in DOMAIN s : s[i] = c /\ \A j \in (i+1)..Len(s) : s[j] # c
    ELSE 0

RECURSIVE SplitOn(_, _)
SplitOn(s, c) ==
    IF IndexOf(s, c) = 0 THEN <<s>>
    ELSE <<SubSeq(s, 1, IndexOf(s, c) - 1)>> \o SplitOn(SubSeq(s, IndexOf(s, c) + 1, Len(s)), c)

\* the parts of a path after the anchor: empty and "." components are dropped
PathParts(s) == SelectSeq(SplitOn(s, "/"), LAMBDA part : part # <<>> /\ part # <<".">>)

PathAnchor(s) == IF StartsWith(s, <<"/">>) THEN <<"/">> ELSE <<>>

RECURSIVE JoinParts(_)
JoinParts(parts) ==
    IF parts = <<>> THEN <<>>
    ELSE IF Len(parts) = 1 THEN parts[1]
    ELSE parts[1] \o <<"/">> \o JoinParts(Tail(parts))

\* str(PurePosixPath) from anchor and parts
PathStr(anchor, parts) ==
    IF parts = <<>> THEN (IF anchor = <<>> THEN <<".">> ELSE anchor)
    ELSE anchor \o JoinParts(parts)

\* PurePath.name
PathName(s) == IF PathParts(s) = <<>> THEN <<>> ELSE PathParts(s)[Len(PathParts(s))]

\* PurePath.suffix: name[i:] when 0 < i < len(name) - 1 for i = name.rfind('.')
PathSuffix(s) ==
    LET name == PathName(s)
        i == RFind(name, ".")
    IN  IF 1 < i /\ i < Len(name) THEN SubSeq(name, i, Len(name)) ELSE <<>>

\* PurePath.stem
PathStem(s) ==
    LET name == PathName(s)
        i == RFind(name, ".")
    IN  IF 1 < i /\ i < Len(name) THEN SubSeq(name, 1, i - 1) ELSE name

\* the parts of PurePath.parent
ParentParts(s) ==
    IF PathParts(s) = <<>> THEN <<>> ELSE SubSeq(PathParts(s), 1, Len(PathParts(s)) - 1)

\* str(PurePath(s) / other)
PathJoin(s, other) ==
    IF PathAnchor(other) # <<>> THEN PathStr(PathAnchor(other), PathParts(other))
    ELSE PathStr(PathAnchor(s), PathParts(s) \o PathParts(other))

\* str(PurePath(s).parent)
PathParent(s) == PathStr(PathAnchor(s), ParentParts(s))

(***************************************************************************)
(* utils/fileio.py                                                         *)
(***************************************************************************)
append_to_filename(file_path, suffix, separator) ==
    LET stem == PathStem(file_path)
        extension == PathSuffix(file_path)
        new_filename == stem \o separator \o suffix \o extension
    IN  PathJoin(PathParent(file_path), new_filename)

\* os.linesep
linesep == <<"\n">>

\* the concatenation of pieces[lo..hi]
RECURSIVE ConcatRange(_, _, _)
ConcatRange(pieces, lo, hi) ==
    IF lo > hi THEN <<>>
    ELSE IF lo = hi THEN pieces[lo]
    ELSE ConcatRange(pieces, lo, (lo + hi) \div 2) \o ConcatRange(pieces, (lo + hi) \div 2 + 1, hi)

\* text-mode write with newline=None: "\n" is written as os.linesep
TranslateOut(s) ==
    ConcatRange([i \in 1..Len(s) |-> IF s[i] = "\n" THEN linesep ELSE <<s[i]>>], 1, Len(s))

\* text-mode read with newline=None: "\r\n" and "\r" are read as "\n"
UniversalNewlines(s) ==
    ConcatRange([i \in 1..Len(s) |->
                    IF s[i] = "\r" THEN <<"\n">>
                    ELSE IF s[i] = "\n" /\ i > 1 /\ s[i-1] = "\r" THEN <<>>
                    ELSE <<s[i]>>], 1, Len(s))

\* the filesystem: the directories that exist and the content of each file
FileExists(fsys, path) == path \in DOMAIN fsys.files

read_file(file_path, fsys, io_ok) ==
    IF ~FileExists(fsys, PathStr(PathAnchor(file_path), PathParts(file_path)))
    THEN Raised("FileNotFoundError", fsys)
    ELSE IF ~io_ok THEN Raised("OSError", fsys)
    ELSE Returned(UniversalNewlines(fsys.files[PathStr(PathAnchor(file_path), PathParts(file_path))]), fsys)

\* Path.mkdir(parents=True, exist_ok=True)
Mkdir(fsys, path) == [fsys EXCEPT !.dirs = @ \cup {path}]

\* a write that ends the text with a line break
WriteTextLine(fsys, path, data) ==
    [fsys EXCEPT !.files = (path :> TranslateOut(data \o <<"\n">>)) @@ @]

\* Path.write_text(data, encoding='utf-8')
WriteText(fsys, path, data) ==
    [fsys EXCEPT !.files = (path :> TranslateOut(data)) @@ @]

(***************************************************************************)
(* models/TrendCard.py                                                     *)
(***************************************************************************)
\* the declared fields, in schema order
TrendCardFields ==
    <<"card_identifier", "title", "description", "implications", "opportunities", "challenges">>

\* the attribute names as text
AttrName ==
    [card_identifier |-> <<"c","a","r","d","_","i","d","e","n","t","i","f","i","e","r">>,
     title           |-> <<"t","i","t","l","e">>,
     description     |-> <<"d","e","s","c","r","i","p","t","i","o","n">>,
     implications    |-> <<"i","m","p","l","i","c","a","t","i","o","n","s">>,
     opportunities   |-> <<"o","p","p","o","r","t","u","n","i","t","i","e","s">>,
     challenges      |-> <<"c","h","a","l","l","e","n","g","e","s">>]

\* output_format.format(title=title, content=content) for the default
\* output_format "**{title}:** {content}\n\n"
FormatSection(title, content) ==
    <<"*","*">> \o title \o <<":","*","*"," ">> \o content \o <<"\n","\n">>

RECURSIVE MarkdownSections(_, _)
MarkdownSections(self, attrs) ==
    IF attrs = <<>> THEN <<>>
    ELSE FormatSection(Title(Replace(AttrName[Head(attrs)], "_", " ")), self[Head(attrs)])
         \o MarkdownSections(self, Tail(attrs))

to_markdown(self) == Strip(MarkdownSections(self, TrendCardFields))

\* the name derived without removing leading and trailing whitespace
SlugNoStrip(card_identifier) == SubSpaces(SubPunct(Lower(card_identifier)))

\* the name derived with the two substitutions in the other order
SlugSwapped(card_identifier) == SubPunct(SubSpaces(Strip(Lower(card_identifier))))

\* save_to_file, lines 103-105 without the extension: the name derived from
\* the card identifier
Slug(card_identifier) == SubSpaces(Strip(SubPunct(Lower(card_identifier))))

\* the default of save_to_file's extension parameter
DefaultExtension == <<".","m","d">>

\* the extension taken as given
ExtensionAsGiven(extension) == extension

\* save_to_file, lines 99-101
NormExtension(extension) ==
    IF StartsWith(extension, <<".">>) THEN extension ELSE <<".">> \o extension

\* the file name save_to_file derives (lines 99-108)
FileName(self, file_name_suffix, extension) ==
    LET file_name == Slug(self.card_identifier) \o NormExtension(extension)
    IN  IF Truthy(file_name_suffix)
        THEN append_to_filename(file_name, file_name_suffix, <<"_">>)
        ELSE file_name

\* io is the outcome the filesystem gives: "ok", "mkdir_fails" or "write_fails"
save_to_file(self, file_name_suffix, extension, file_path, fsys, io) ==
    LET file_name == FileName(self, file_name_suffix, extension)
        made == Mkdir(fsys, file_path)
        output_path == PathJoin(file_path, file_name)
    IN  IF io = "mkdir_fails" THEN Raised("OSError", fsys)
        ELSE IF NormExtension(extension) = <<".","m","d">>
        THEN IF io = "write_fails" THEN Raised("OSError", made)
             ELSE Returned(file_name, WriteText(made, output_path, to_markdown(self)))
        ELSE Raised("NotImplementedError", made)

(***************************************************************************)
(* str() and str.format                                                    *)
(***************************************************************************)
\* an Optional[int] is the empty set (None) or the set of the one integer
NoInt == {}

\* str(n) for an integer
RECURSIVE IntStr(_)
IntStr(n) ==
    IF n < 0 THEN <<"-">> \o IntStr(-n)
    ELSE IF n < 10 THEN <<Digits[n + 1]>>
    ELSE IntStr(n \div 10) \o <<Digits[(n % 10) + 1]>>

NoneStr == <<"N","o","n","e">>

\* str(v) for an Optional[str]
StrOfText(v) == IF v = None THEN NoneStr ELSE v

\* str(v) for an Optional[int]
StrOfInt(v) == IF v = NoInt THEN NoneStr ELSE IntStr(CHOOSE n \in v : TRUE)

\* the result of an expression: the exception raised ("" when none) and the value
Ok(value) == [exc |-> "", value |-> value]

Err(exc) == [exc |-> exc, value |-> None]

\* template.format(**kwargs), kwargs a function from field names to their
\* str(): "{{" and "}}" are literal braces, "{name}" is replaced by
\* kwargs[name]; a name that is no key raises KeyError, an empty or numeric
\* name IndexError, a single brace ValueError.  Conversions and format specs
\* ("!r", ":>10", attribute and index lookups) are not modelled.
RECURSIVE Format(_, _)
Format(template, kwargs) ==
    LET Then(prefix, k) ==
            LET rest == Format(SubSeq(template, k, Len(template)), kwargs)
            IN  IF rest.exc # "" THEN rest ELSE Ok(prefix \o rest.value)
        close == IndexOf(template, "}")
        name == SubSeq(template, 2, close - 1)
    IN  IF template = <<>> THEN Ok(<<>>)
        ELSE IF StartsWith(template, <<"{","{">>) THEN Then(<<"{">>, 3)
        ELSE IF StartsWith(template, <<"}","}">>) THEN Then(<<"}">>, 3)
        ELSE IF Head(template) = "}" THEN Err("ValueError")
        ELSE IF Head(template) = "{"
        THEN IF close = 0 \/ "{" \in Range(name) THEN Err("ValueError")
             ELSE IF name = <<>> \/ \A j \in DOMAIN name : name[j] \in Range(Digits)
                  THEN Err("IndexError")
             ELSE IF name \notin DOMAIN kwargs THEN Err("KeyError")
             ELSE Then(kwargs[name], close + 1)
        ELSE Then(<<Head(template)>>, 2)

(***************************************************************************)
(* agents/AgentFactory.py, and the constructors of the Generator and the   *)
(* Editor.  A configuration is a function from its keys to their values;   *)
(* a temperature is counted in tenths.                                     *)
(***************************************************************************)
\* dict.get(key, default)
Get(config, key, default) == IF key \in DOMAIN config THEN config[key] ELSE default

\* config with config[key] = value
Put(config, key, value) == (key :> value) @@ config

create_agent(config) ==
    IF "model" \notin DOMAIN config \/ "system_prompt" \notin DOMAIN config
    THEN Err("KeyError")
    ELSE Ok([model |-> config["model"],
             google |-> StartsWith(config["model"], <<"g","e","m","i","n","i">>),
             temperature |-> Get(config, "temperature", 5),
             max_tokens |-> Get(config, "max_tokens", 2048),
             thinking_budget |->
                 IF StartsWith(config["model"], <<"g","e","m","i","n","i">>)
                 THEN {Get(config, "thinking_budget", 2048)} ELSE NoInt,
             output_type |-> "TrendCard",
             system_prompt |-> config["system_prompt"],
             retries |-> Get(config, "generator_retries", 3)])

\* an override that leaves the temperature of the file
ApplySettingsModelOnly(config, settings) ==
    IF settings = {} THEN config
    ELSE [k \in DOMAIN config \cup {"model"} |->
            IF k = "model" THEN (CHOOSE o \in settings : TRUE).model ELSE config[k]]

\* "overwrite the config file settings if settings are provided"; settings
\* is the empty set (None) or the set of the one AgentConfiguration
ApplySettings(config, settings) ==
    IF settings = {} THEN config
    ELSE LET override == CHOOSE o \in settings : TRUE
         IN  Put(Put(config, "model", override.model), "temperature", override.temperature)

\* TrendCardAgent.__init__ after load_config returned config
TrendCardAgent_init(loaded, settings) ==
    LET config == ApplySettings(loaded, settings)
    IN  IF "prompt_template" \notin DOMAIN config \/ "model" \notin DOMAIN config
        THEN Err("KeyError")
        ELSE IF create_agent(config).exc # "" THEN create_agent(config)
        ELSE Ok([config |-> config,
                 prompt_template |-> config["prompt_template"],
                 model |-> config["model"],
                 agent |-> create_agent(config).value])

\* TrendCardEditor.__init__ after load_config returned config
TrendCardEditor_init(loaded, settings, section_word_limit) ==
    LET merged == ApplySettings(loaded, settings)
        prompt == IF "system_prompt" \in DOMAIN merged
                  THEN Format(merged["system_prompt"],
                              <<"w","o","r","d","_","l","i","m","i","t">> :> IntStr(section_word_limit))
                  ELSE Err("KeyError")
        config == Put(merged, "system_prompt", prompt.value)
    IN  IF prompt.exc # "" THEN prompt
        ELSE IF "model" \notin DOMAIN config THEN Err("KeyError")
        ELSE IF create_agent(config).exc # "" THEN create_agent(config)
        ELSE Ok([config |-> config,
                 model |-> config["model"],
                 agent |-> create_agent(config).value])

(***************************************************************************)
(* TrendCard.get_length and the prompt of the Generator                    *)
(***************************************************************************)
\* len(WORD_PATTERN.findall(content)) for WORD_PATTERN \b[\w']+\b: the
\* maximal runs of word characters and apostrophes that have a word character
WordCount(content) ==
    LET InWord(c) == IsWord(c) \/ c = "'"
        \* a run starts at p and ends at q
        IsRun(p, q) ==
            /\ \A j \in p..q : InWord(content[j])
            /\ (p = 1 \/ ~InWord(content[p-1]))
            /\ (q = Len(content) \/ ~InWord(content[q+1]))
            /\ \E j \in p..q : IsWord(content[j])
    IN  Cardinality({pq \in (1..Len(content)) \X (1..Len(content)) :
                        pq[1] <= pq[2] /\ IsRun(pq[1], pq[2])})

\* str(trend_card.get_length()): the dict of the word counts in schema order
RECURSIVE LengthItems(_, _)
LengthItems(self, attrs) ==
    IF attrs = <<>> THEN <<>>
    ELSE <<"'">> \o AttrName[Head(attrs)] \o <<"'", ":", " ">> \o IntStr(WordCount(self[Head(attrs)]))
         \o (IF Len(attrs) > 1 THEN <<",", " ">> ELSE <<>>)
         \o LengthItems(self, Tail(attrs))

get_length_str(self) == <<"{">> \o LengthItems(self, TrendCardFields) \o <<"}">>

\* TrendCardInput(industry_segment, topic, component, word_limit)
TrendCardInput(industry_segment, topic, component, word_limit) ==
    [industry_segment |-> industry_segment, topic |-> topic,
     component |-> component, word_limit |-> word_limit]

\* a format call that does not pass the component
FormatPromptNoComponent(prompt_template, inputs) ==
    Format(prompt_template,
           (<<"i","n","d","u","s","t","r","y","_","s","e","g","m","e","n","t">> :> StrOfText(inputs.industry_segment))
           @@ (<<"t","o","p","i","c">> :> StrOfText(inputs.topic))
           @@ (<<"w","o","r","d","_","l","i","m","i","t">> :> StrOfInt(inputs.word_limit)))

\* self.prompt_template.format(industry_segment=..., topic=..., component=..., word_limit=...)
FormatPrompt(prompt_template, inputs) ==
    Format(prompt_template,
           (<<"i","n","d","u","s","t","r","y","_","s","e","g","m","e","n","t">> :> StrOfText(inputs.industry_segment))
           @@ (<<"t","o","p","i","c">> :> StrOfText(inputs.topic))
           @@ (<<"c","o","m","p","o","n","e","n","t">> :> StrOfText(inputs.component))
           @@ (<<"w","o","r","d","_","l","i","m","i","t">> :> StrOfInt(inputs.word_limit)))

(***************************************************************************)
(* The calls the model makes and the values they are made with.            *)
(***************************************************************************)
\* every text of at most n characters over chars
Texts(chars, n) == UNION {[1..k -> chars] : k \in 0..n}

\* every sequence of at most n elements of items
Lists(items, n) == UNION {[1..k -> items] : k \in 0..n}

IdChars == {"A", "b", "1", "_", " ", "!"}

\* the field values of a card the model returned
FieldValues ==
    {<<"x">>, <<"x"," ">>, <<"x","\n","y">>, <<"x","\r","y">>, <<"x","\r","\n">>}

PlainCard(card_identifier) ==
    [card_identifier |-> card_identifier, title |-> <<"T">>, description |-> <<"d">>,
     implications |-> <<"i">>, opportunities |-> <<"o">>, challenges |-> <<"c">>]

\* cards with every identifier up to the bound, and cards whose text fields vary
Cards ==
    {PlainCard(id) : id \in Texts(IdChars, MaxIdLen)}
    \cup {[PlainCard(<<"A"," ","/"," ","B">>) EXCEPT !.title = t, !.challenges = c] :
            t \in FieldValues, c \in FieldValues}

Suffixes == {None, <<>>, <<"v","2">>, <<"e",".","d">>}

Extensions == {<<".","m","d">>, <<"m","d">>, <<".","t","x","t">>, <<".","M","D">>, <<>>}

OutDir == <<"o","u","t">>

InDir == <<"i","n">>

IoOutcomes == {"ok", "mkdir_fails", "write_fails"}

\* file paths, suffixes and separators append_to_filename is called with
AppendPaths ==
    {<<"r","e","p","o","r","t",".","m","d">>, <<"/","a","/","b","/","d","o","c","u","m","e","n","t",".","p","d","f">>, <<"a","/",".","m","d">>, <<"a","/","/","b",".","m","d">>, <<"r",".">>, <<"a",".","b",".","m","d">>, <<"n","o","e","x","t">>}

AppendSuffixes == {<<"e","d","i","t","e","d">>, <<"v","2">>, <<>>}

Separators == {<<"_">>, <<"-">>, <<>>}

EmptyFs == [dirs |-> {}, files |-> <<>>]

\* the filesystem an edit batch starts in
InputFs ==
    [dirs |-> {InDir},
     files |-> (<<"i","n","/","x",".","m","d">> :> <<"o","l","d"," ","x","\r","\n">>) @@ (<<"i","n","/","y",".","m","d">> :> <<"o","l","d"," ","y">>)]

SaveCalls ==
    {[op |-> "save_to_file", self |-> c, file_name_suffix |-> s, extension |-> e,
      file_path |-> OutDir] : c \in Cards, s \in Suffixes, e \in Extensions}

AppendCalls ==
    {[op |-> "append_to_filename", file_path |-> f, suffix |-> s, separator |-> sep] :
        f \in AppendPaths, s \in AppendSuffixes, sep \in Separators}

\* a base configuration file with every key
FullConfig(system_prompt) ==
    [model |-> <<"g","p","t","-","4","o">>, temperature |-> 7, system_prompt |-> system_prompt,
     prompt_template |-> <<"{","t","o","p","i","c","}">>, max_tokens |-> 1024, generator_retries |-> 2,
     thinking_budget |-> 512]

Restrict(f, keys) == [k \in keys |-> f[k]]

SystemPrompts == {<<"E","d","i","t",".">>, <<"A","t"," ","m","o","s","t"," ","{","w","o","r","d","_","l","i","m","i","t","}"," ","w","o","r","d","s",".">>}

\* what load_config returns: any subset of the keys may be in the file
LoadedConfigs ==
    {Restrict(FullConfig(p), keys) : p \in SystemPrompts, keys \in SUBSET DOMAIN FullConfig(<<>>)}

\* settings: None or an AgentConfiguration
SettingsArgs ==
    {{}, {[model |-> <<"g","e","m","i","n","i","-","x">>, temperature |-> 12]}, {[model |-> <<"o","3">>, temperature |-> 0]}}

ConstructorCalls ==
    {[op |-> "TrendCardAgent", loaded |-> c, settings |-> st] :
        c \in LoadedConfigs, st \in SettingsArgs}
    \cup {[op |-> "TrendCardEditor", loaded |-> c, settings |-> st, section_word_limit |-> 40] :
        c \in LoadedConfigs, st \in SettingsArgs}

ExampleTemplate == <<"{","i","n","d","u","s","t","r","y","_","s","e","g","m","e","n","t","}","|","{","t","o","p","i","c","}","|","{","c","o","m","p","o","n","e","n","t","}","|","{","w","o","r","d","_","l","i","m","i","t","}">>

PromptTemplates ==
    {ExampleTemplate, <<"{","t","o","p","i","c","}"," ","i","n"," ","{","w","o","r","d","_","l","i","m","i","t","}">>, <<"p","l","a","i","n">>, <<"{","t","o","p","i","c","}","{","o","t","h","e","r","}">>,
     <<"{","{","{","c","o","m","p","o","n","e","n","t","}","}","}">>, <<"{","t","o","p","i","c">>}

GenerateCalls ==
    {[op |-> "generate_trend_card", self |-> [prompt_template |-> t],
      inputs |-> TrendCardInput(<<"F","i","n","t","e","c","h">>, <<"E","m","b","e","d","d","e","d"," ","F","i","n","a","n","c","e">>, c, w)] :
        t \in PromptTemplates, c \in {<<"E","c","o","n","o","m","i","c">>, None}, w \in {{30}, {40}, NoInt}}

\* the cards the provider returns to a batch: the first two have the same slug
ProviderCards == {PlainCard(<<"A"," ","/"," ","B">>), PlainCard(<<"a","-","b">>), PlainCard(<<"x">>)}

\* the cards the provider may return to generate_trend_card: any card the
\* schema accepts, among them the one named after the input
GenerateResponses ==
    ProviderCards \cup {PlainCard(<<"E","m","b","e","d","d","e","d"," ","F","i","n","a","n","c","e"," ","/"," ","E","c","o","n","o","m","i","c">>), PlainCard(<<"E","m","b","e","d","d","e","d"," ","F","i","n","a","n","c","e">>)}

\* the (topic, component) pairs of a topic map
TopicPairs == {<<<<"t">>, <<"S","o","c","i","a","l">>>>, <<<<"u">>, None>>, <<<<"v">>, <<"L","e","g","a","l">>>>}

\* an ordered mapping: no topic twice
TopicMaps ==
    {m \in Lists(TopicPairs, MaxBatch) : \A p, q \in DOMAIN m : p # q => m[p][1] # m[q][1]}

GenerateBatchCalls ==
    {[op |-> "generate_batch", self |-> [prompt_template |-> t], industry_segment |-> <<"F">>,
      topic_map |-> m, target_dir |-> OutDir, word_limit |-> {40}, verbose |-> v] :
        t \in {<<"{","t","o","p","i","c","}","/","{","c","o","m","p","o","n","e","n","t","}">>, <<"{","t","o","p","i","c","}","{","o","t","h","e","r","}">>}, m \in TopicMaps, v \in BOOLEAN}

InputPaths == {<<"i","n","/","x",".","m","d">>, <<"i","n","/","y",".","m","d">>, <<"i","n","/","n","o","n","e",".","m","d">>}

EditBatchCalls ==
    {[op |-> "edit_batch", file_list |-> l, target_dir |-> d, file_name_suffix |-> s,
      verbose |-> v] :
        l \in Lists(InputPaths, MaxBatch), d \in {OutDir, InDir}, s \in {<<>>, <<"e">>},
        v \in BOOLEAN}

(***************************************************************************)
(* The state machine.  call is the call being made with its arguments, pc  *)
(* the position of the caller ("awaiting" while it is suspended in         *)
(* agent.run), ret the value returned or the exception raised, fs the      *)
(* filesystem, readback what read_file returned for the file a             *)
(* save_to_file call reported, idx the position of a batch loop, seq_i its *)
(* counter i,        inflight the prompts the provider has not answered,   *)
(* trace the reads, model requests, responses, persists and errors of a    *)
(* batch in the order they happened, out what was printed.                 *)
(***************************************************************************)
Init ==
    /\ call \in SaveCalls \cup AppendCalls \cup ConstructorCalls \cup GenerateCalls
                \cup GenerateBatchCalls \cup EditBatchCalls
    /\ pc = "called"
    /\ ret = Ok(None)
    /\ fs = IF call.op = "edit_batch" THEN InputFs ELSE EmptyFs
    /\ readback = Ok(None)
    /\ idx = 0
    /\ seq_i = 1
    /\ inflight = <<>>
    /\ trace = <<>>
    /\ out = <<>>

batchVars == <<idx, seq_i, inflight, trace, out>>

Finish(result) ==
    /\ pc' = IF result.exc = "" THEN "returned" ELSE "raised"
    /\ ret' = [exc |-> result.exc, value |-> result.value]

\* TrendCard.save_to_file
SaveToFile ==
    /\ pc = "called"
    /\ call.op = "save_to_file"
    /\ \E io \in IoOutcomes :
          LET result == save_to_file(call.self, call.file_name_suffix, call.extension,
                                     call.file_path, fs, io)
          IN  Finish(result) /\ fs' = result.fs
    /\ UNCHANGED <<call, readback, batchVars>>

\* fileio.append_to_filename
AppendToFilename ==
    /\ pc = "called"
    /\ call.op = "append_to_filename"
    /\ Finish(Ok(append_to_filename(call.file_path, call.suffix, call.separator)))
    /\ UNCHANGED <<call, fs, readback, batchVars>>

\* fileio.read_file of the file a save_to_file call reported
ReadBack ==
    /\ pc = "returned"
    /\ call.op = "save_to_file"
    /\ \E io_ok \in BOOLEAN :
          LET result == read_file(PathJoin(call.file_path, ret.value), fs, io_ok)
          IN  readback' = [exc |-> result.exc, value |-> result.value]
    /\ pc' = "read"
    /\ UNCHANGED <<call, ret, fs, batchVars>>

\* TrendCardAgent(settings=...)
ConstructAgent ==
    /\ pc = "called"
    /\ call.op = "TrendCardAgent"
    /\ Finish(TrendCardAgent_init(call.loaded, call.settings))
    /\ UNCHANGED <<call, fs, readback, batchVars>>

\* TrendCardEditor(settings=..., section_word_limit=...)
ConstructEditor ==
    /\ pc = "called"
    /\ call.op = "TrendCardEditor"
    /\ Finish(TrendCardEditor_init(call.loaded, call.settings, call.section_word_limit))
    /\ UNCHANGED <<call, fs, readback, batchVars>>

(***************************************************************************)
(* The Generator, the Editor and the batch runners.  agent.run suspends    *)
(* the caller; an action is the code from one suspension to the next.      *)
(***************************************************************************)
Event(ev, item, text) == [ev |-> ev, item |-> item, text |-> text]

Goto(p, r, k, requests, tr, fsys, o, n) ==
    /\ pc' = p
    /\ ret' = r
    /\ idx' = k
    /\ inflight' = requests
    /\ trace' = tr
    /\ fs' = fsys
    /\ out' = o
    /\ seq_i' = n

\* the for loop has no item k
Exhausted(items, k) == k > Len(items)

\* "s" if list_len > 1 else ""
Plural(list_len) == IF list_len > 1 THEN <<"s">> ELSE <<>>

\* generate_batch from the head of iteration k to the suspension in agent.run
GenerateIteration(k, fsys, tr, o, n) ==
    IF Exhausted(call.topic_map, k)
    THEN Goto("returned", Ok(None), k, <<>>, tr, fsys, o, n)
    ELSE LET inputs == TrendCardInput(call.industry_segment, call.topic_map[k][1],
                                      call.topic_map[k][2], call.word_limit)
             prompt == FormatPrompt(call.self.prompt_template, inputs)
         IN  IF prompt.exc # ""
             THEN Goto("raised", prompt, k, <<>>, tr \o <<Event("error", k, <<>>)>>,
                       fsys, o, n)
             ELSE Goto("awaiting", Ok(None), k, <<prompt.value>>,
                       tr \o <<Event("submit", k, prompt.value)>>, fsys, o, n)

\* edit_batch from the head of iteration k to the suspension in agent.run
EditIteration(k, fsys, tr, o, n) ==
    IF Exhausted(call.file_list, k)
    THEN Goto("returned", Ok(None), k, <<>>, tr, fsys, o, n)
    ELSE \E io_ok \in BOOLEAN :
            LET text == read_file(call.file_list[k], fsys, io_ok)
            IN  IF text.exc # ""
                THEN Goto("raised", Err(text.exc), k, <<>>,
                          tr \o <<Event("error", k, <<>>)>>, fsys, o, n)
                ELSE Goto("awaiting", Ok(None), k, <<text.value>>,
                          tr \o <<Event("read", k, call.file_list[k]),
                                  Event("submit", k, text.value)>>, fsys, o, n)

\* what generate_batch prints for an item when verbose
GenerateReport(trend_card, n) ==
    <<IntStr(n) \o <<":"," ">> \o trend_card.card_identifier \o <<"\n">>,
      <<"\n","S","E","C","T","I","O","N"," ","L","E","N","G","T","H","S","\n">>,
      get_length_str(trend_card) \o <<"\n","\n">>>>

\* what edit_batch prints for an item when verbose
EditReport(trend_card, saved_file_name, n) ==
    <<IntStr(n) \o <<":"," ">> \o saved_file_name \o <<"\n">>,
      <<"\n","W","O","R","D"," ","L","E","N","G","T","H","S","\n">>,
      get_length_str(trend_card) \o <<"\n","\n">>>>

\* TrendCardAgent.generate_trend_card, called on its own, up to agent.run
GenerateTrendCard ==
    /\ pc = "called"
    /\ call.op = "generate_trend_card"
    /\ LET prompt == FormatPrompt(call.self.prompt_template, call.inputs)
       IN  IF prompt.exc # ""
           THEN Goto("raised", prompt, idx, <<>>, trace, fs, out, seq_i)
           ELSE Goto("awaiting", Ok(None), idx, <<prompt.value>>,
                     trace \o <<Event("submit", 1, prompt.value)>>, fs, out, seq_i)
    /\ UNCHANGED <<call, readback>>

\* a generate_batch that hands every prompt to the provider before it awaits
GenerateBatchGather ==
    /\ pc = "called"
    /\ call.op = "generate_batch"
    /\ LET prompts == [k \in 1..Len(call.topic_map) |->
                          FormatPrompt(call.self.prompt_template,
                              TrendCardInput(call.industry_segment, call.topic_map[k][1],
                                             call.topic_map[k][2], call.word_limit))]
       IN  IF \E k \in DOMAIN prompts : prompts[k].exc # ""
           THEN Goto("raised", Err("KeyError"), 1, <<>>, <<Event("error", 1, <<>>)>>,
                     fs, out, 1)
           ELSE IF prompts = <<>>
           THEN Goto("returned", Ok(None), 1, <<>>, trace, fs, out, 1)
           ELSE Goto("awaiting", Ok(None), 1, [k \in DOMAIN prompts |-> prompts[k].value],
                     [k \in DOMAIN prompts |-> Event("submit", k, prompts[k].value)],
                     fs, out, 1)
    /\ UNCHANGED <<call, readback>>

\* TrendCardAgent.generate_batch up to the first suspension
GenerateBatch ==
    /\ pc = "called"
    /\ call.op = "generate_batch"
    /\ GenerateIteration(1, fs, trace,
          IF call.verbose
          THEN <<<<"P","r","o","c","e","s","s","i","n","g"," ">> \o IntStr(Len(call.topic_map)) \o <<" ","t","o","p","i","c">>
                 \o Plural(Len(call.topic_map)) \o <<".",".",".","\n">>>>
          ELSE <<>>,
          1)
    /\ UNCHANGED <<call, readback>>

\* TrendCardEditor.edit_batch up to the first suspension
EditBatch ==
    /\ pc = "called"
    /\ call.op = "edit_batch"
    /\ EditIteration(1, fs, trace,
          IF call.verbose
          THEN <<<<"E","d","i","t","i","n","g"," ">> \o IntStr(Len(call.file_list)) \o <<" ","f","i","l","e">>
                 \o Plural(Len(call.file_list)) \o <<" ","i","n"," ","\"">> \o call.target_dir \o <<"\"",".",".",".","\n">>>>
          ELSE <<>>,
          1)
    /\ UNCHANGED <<call, readback>>

\* a batch whose save_to_file call stands inside the "if verbose:" block
ProviderReturnsSaveIfVerbose ==
    /\ pc = "awaiting"
    /\ inflight # <<>>
    /\ \E trend_card \in (IF call.op = "generate_trend_card" THEN GenerateResponses
                           ELSE ProviderCards),
          io \in IoOutcomes :
          LET answered == trace \o <<Event("response", idx, trend_card.card_identifier)>>
              suffix == IF call.op = "edit_batch" THEN call.file_name_suffix ELSE None
              saved == IF call.verbose
                       THEN save_to_file(trend_card, suffix, DefaultExtension, call.target_dir, fs, io)
                       ELSE Returned(None, fs)
              persisted == IF call.verbose
                           THEN answered \o <<Event("persist", idx, saved.value)>>
                           ELSE answered
          IN  CASE call.op = "generate_trend_card" ->
                     /\ io = "ok"
                     /\ Goto("returned", Ok(trend_card), idx, Tail(inflight), answered,
                             fs, out, seq_i)
                [] call.op = "generate_batch" ->
                     IF saved.exc # ""
                     THEN Goto("raised", Err(saved.exc), idx, Tail(inflight),
                               answered \o <<Event("error", idx, <<>>)>>,
                               saved.fs, out, seq_i)
                     ELSE GenerateIteration(idx + 1, saved.fs, persisted,
                             IF call.verbose THEN out \o GenerateReport(trend_card, seq_i) ELSE out,
                             IF call.verbose THEN seq_i + 1 ELSE seq_i)
                [] call.op = "edit_batch" ->
                     IF saved.exc # ""
                     THEN Goto("raised", Err(saved.exc), idx, Tail(inflight),
                               answered \o <<Event("error", idx, <<>>)>>,
                               saved.fs, out, seq_i)
                     ELSE EditIteration(idx + 1, saved.fs, persisted,
                             IF call.verbose
                             THEN out \o EditReport(trend_card, saved.value, seq_i) ELSE out,
                             IF call.verbose THEN seq_i + 1 ELSE seq_i)
    /\ UNCHANGED <<call, readback>>

\* agent.run returns a validated card: the caller resumes and runs to its
\* next suspension, its return or its exception
ProviderReturns ==
    /\ pc = "awaiting"
    /\ inflight # <<>>
    /\ \E trend_card \in (IF call.op = "generate_trend_card" THEN GenerateResponses
                           ELSE ProviderCards),
          io \in IoOutcomes :
          LET answered == trace \o <<Event("response", idx, trend_card.card_identifier)>>
              suffix == IF call.op = "edit_batch" THEN call.file_name_suffix ELSE None
              saved == save_to_file(trend_card, suffix, DefaultExtension, call.target_dir, fs, io)
              persisted == answered \o <<Event("persist", idx, saved.value)>>
          IN  CASE call.op = "generate_trend_card" ->
                     /\ io = "ok"
                     /\ Goto("returned", Ok(trend_card), idx, Tail(inflight), answered,
                             fs, out, seq_i)
                [] call.op = "generate_batch" ->
                     IF saved.exc # ""
                     THEN Goto("raised", Err(saved.exc), idx, Tail(inflight),
                               answered \o <<Event("error", idx, <<>>)>>,
                               saved.fs, out, seq_i)
                     ELSE GenerateIteration(idx + 1, saved.fs, persisted,
                             IF call.verbose THEN out \o GenerateReport(trend_card, seq_i) ELSE out,
                             IF call.verbose THEN seq_i + 1 ELSE seq_i)
                [] call.op = "edit_batch" ->
                     IF saved.exc # ""
                     THEN Goto("raised", Err(saved.exc), idx, Tail(inflight),
                               answered \o <<Event("error", idx, <<>>)>>,
                               saved.fs, out, seq_i)
                     ELSE EditIteration(idx + 1, saved.fs, persisted,
                             IF call.verbose
                             THEN out \o EditReport(trend_card, saved.value, seq_i) ELSE out,
                             IF call.verbose THEN seq_i + 1 ELSE seq_i)
    /\ UNCHANGED <<call, readback>>

\* a batch that catches the failure of an item and goes on with the next
ProviderFailsSkipped ==
    /\ pc = "awaiting"
    /\ inflight # <<>>
    /\ \E exc \in {"UnexpectedModelBehavior", "ModelHTTPError"} :
          CASE call.op = "generate_trend_card" ->
                 Goto("raised", Err(exc), idx, Tail(inflight), trace, fs, out, seq_i)
            [] call.op = "generate_batch" ->
                 GenerateIteration(idx + 1, fs, trace \o <<Event("error", idx, <<>>)>>,
                                   out, seq_i)
            [] call.op = "edit_batch" ->
                 EditIteration(idx + 1, fs, trace \o <<Event("error", idx, <<>>)>>,
                               out, seq_i)
    /\ UNCHANGED <<call, readback>>

\* agent.run raises (the provider failed, or no response validated within
\* the retries): the exception leaves the caller
ProviderFails ==
    /\ pc = "awaiting"
    /\ inflight # <<>>
    /\ \E exc \in {"UnexpectedModelBehavior", "ModelHTTPError"} :
          Goto("raised", Err(exc), idx, Tail(inflight),
               trace \o <<Event("error", idx, <<>>)>>, fs, out, seq_i)
    /\ UNCHANGED <<call, readback>>

Next ==
    \/ SaveToFile
    \/ AppendToFilename
    \/ ReadBack
    \/ ConstructAgent
    \/ ConstructEditor
    \/ GenerateTrendCard
    \/ GenerateBatch
    \/ EditBatch
    \/ ProviderReturns
    \/ ProviderFails

Spec == Init /\ [][Next]_vars

(***************************************************************************)
(* Properties of persistence.                                              *)
(***************************************************************************)
MdExt == <<".","m","d">>

\* save_to_file has returned (and possibly been read back)
SaveReturned == call.op = "save_to_file" /\ pc \in {"returned", "read"}

\* save_to_file has returned or raised
SaveFinished == call.op = "save_to_file" /\ pc \in {"returned", "raised", "read"}

\* the maximal runs of word characters of s, in order
RECURSIVE WordRuns(_)
WordRuns(s) ==
    IF s = <<>> THEN <<>>
    ELSE IF ~IsWord(Head(s)) THEN WordRuns(Tail(s))
    ELSE LET n == CHOOSE k \in 1..Len(s) :
                    /\ \A j \in 1..k : IsWord(s[j])
                    /\ (k = Len(s) \/ ~IsWord(s[k+1]))
         IN  <<SubSeq(s, 1, n)>> \o WordRuns(SubSeq(s, n + 1, Len(s)))

RECURSIVE JoinWith(_, _)
JoinWith(parts, sep) ==
    IF parts = <<>> THEN <<>>
    ELSE IF Len(parts) = 1 THEN parts[1]
    ELSE parts[1] \o sep \o JoinWith(Tail(parts), sep)

\* C4 as stated: the base filename is the lower-cased identifier with every
\* character that is neither a word character nor whitespace replaced by a
\* space and every run of whitespace replaced by one underscore, followed by
\* the extension.
C4_AsStated ==
    (SaveReturned /\ ~Truthy(call.file_name_suffix)) =>
        ret.value = SubSpaces(SubPunct(Lower(call.self.card_identifier))) \o MdExt

\* C4 amended: leading and trailing whitespace is removed before the runs of
\* whitespace become underscores; so the base filename is the maximal runs
\* of word characters of the lower-cased identifier joined by single
\* underscores, followed by the extension.
C4_BaseFileName ==
    (SaveReturned /\ ~Truthy(call.file_name_suffix)) =>
        ret.value = JoinWith(WordRuns(Lower(call.self.card_identifier)), <<"_">>) \o MdExt

\* a persist without suffix returned for an identifier that starts with
\* whitespace, ends with punctuation and has an upper-case letter
C4_Witness ==
    /\ SaveReturned /\ ~Truthy(call.file_name_suffix)
    /\ call.self.card_identifier = <<" ", "A", "!">>
    /\ ret.value = <<"a", ".", "m", "d">>

\* C5: append_to_filename returns stem + separator + suffix + extension under
\* the unchanged parent directory (with the two documented examples), and a
\* persist with a non-empty suffix returns <slug>_<suffix>.md, which ends
\* with ".md".
C5_SuffixedName ==
    /\ (call.op = "append_to_filename" /\ pc = "returned") =>
          /\ PathName(ret.value) = PathStem(call.file_path) \o call.separator
                                   \o call.suffix \o PathSuffix(call.file_path)
          /\ PathParent(ret.value) = PathParent(call.file_path)
          /\ (/\ call.file_path = <<"r","e","p","o","r","t",".","m","d">>
              /\ call.suffix = <<"e","d","i","t","e","d">>
              /\ call.separator = <<"_">>)
             => ret.value = <<"r","e","p","o","r","t","_","e","d","i","t","e","d",".","m","d">>
          /\ (/\ call.file_path = <<"/","a","/","b","/","d","o","c","u","m","e","n","t",".","p","d","f">>
              /\ call.suffix = <<"v","2">>
              /\ call.separator = <<"-">>)
             => ret.value = <<"/","a","/","b","/","d","o","c","u","m","e","n","t","-","v","2",".","p","d","f">>
    /\ (SaveReturned /\ Truthy(call.file_name_suffix) /\ call.self.card_identifier # <<>>) =>
          /\ ret.value = JoinWith(WordRuns(Lower(call.self.card_identifier)), <<"_">>)
                         \o <<"_">> \o call.file_name_suffix \o MdExt
          /\ EndsWith(ret.value, MdExt)

\* C6 as stated: persist raises the unsupported-format error for every
\* extension argument other than ".md" and writes the file only for ".md"
\* (a filesystem error that comes first aside).
C6_AsStated ==
    (SaveFinished /\ ret.exc # "OSError") =>
        /\ (call.extension # MdExt => ret.exc = "NotImplementedError")
        /\ (ret.exc = "" => call.extension = MdExt)
        /\ (fs.files # <<>> => call.extension = MdExt)

\* C6 amended: an extension argument without a leading period is given one
\* first, so persist writes the file for ".md" and "md" and raises the
\* unsupported-format error for every other extension argument (unless
\* creating the directory or writing fails with a filesystem error).
C6_UnsupportedFormat ==
    (SaveFinished /\ ret.exc # "OSError") =>
        /\ (call.extension \notin {MdExt, <<"m","d">>} <=> ret.exc = "NotImplementedError")
        /\ (call.extension \in {MdExt, <<"m","d">>} <=> ret.exc = "")
        /\ (fs.files # <<>> <=> call.extension \in {MdExt, <<"m","d">>})

\* persist returned for the extension argument "md" and wrote the file
C6_Witness ==
    /\ SaveReturned
    /\ call.extension = <<"m","d">>
    /\ fs.files # <<>>

\* the Markdown of a card, written out: the six sections in schema order,
\* trailing whitespace removed
MarkdownOf(card) ==
    RStrip(<<"*","*","C","a","r","d"," ","I","d","e","n","t","i","f","i","e","r",":","*","*"," ">>
             \o card.card_identifier \o <<"\n","\n">>
           \o <<"*","*","T","i","t","l","e",":","*","*"," ">>
             \o card.title \o <<"\n","\n">>
           \o <<"*","*","D","e","s","c","r","i","p","t","i","o","n",":","*","*"," ">>
             \o card.description \o <<"\n","\n">>
           \o <<"*","*","I","m","p","l","i","c","a","t","i","o","n","s",":","*","*"," ">>
             \o card.implications \o <<"\n","\n">>
           \o <<"*","*","O","p","p","o","r","t","u","n","i","t","i","e","s",":","*","*"," ">>
             \o card.opportunities \o <<"\n","\n">>
           \o <<"*","*","C","h","a","l","l","e","n","g","e","s",":","*","*"," ">>
             \o card.challenges \o <<"\n","\n">>)

\* read_file returned the content of the file a persist reported
ReadBackDone == call.op = "save_to_file" /\ pc = "read" /\ readback.exc = ""

\* C7 as stated: reading the file a successful persist reported yields
\* exactly the card's Markdown.
C7_AsStated ==
    ReadBackDone => readback.value = MarkdownOf(call.self)

\* C7 amended: the round trip is exact for every card whose Markdown has no
\* carriage return (read_file reads "\r" and "\r\n" as "\n").
C7_RoundTrip ==
    (ReadBackDone /\ "\r" \notin Range(MarkdownOf(call.self))) =>
        readback.value = MarkdownOf(call.self)

\* a card whose last field ends with whitespace and whose title has a line
\* break was persisted and read back
C7_Witness ==
    /\ ReadBackDone
    /\ call.self.title = <<"x","\n","y">>
    /\ call.self.challenges = <<"x"," ">>
    /\ readback.value # <<>>

\* C8: the name derivation is idempotent: deriving a name from the name a
\* persist derived (the returned filename without its extension) gives that
\* name again.
C8_SlugIdempotent ==
    (SaveReturned /\ ~Truthy(call.file_name_suffix)) =>
        LET name == SubSeq(ret.value, 1, Len(ret.value) - Len(MdExt))
        IN  Slug(name) = name

\* a persist returned a name that differs from the identifier it came from
C8_Witness ==
    /\ SaveReturned /\ ~Truthy(call.file_name_suffix)
    /\ call.self.card_identifier = <<"A", "!", "b">>
    /\ ret.value = <<"a", "_", "b", ".", "m", "d">>

(***************************************************************************)
(* Properties of the batch runners.                                        *)
(***************************************************************************)
BatchOp == call.op \in {"generate_batch", "edit_batch"}

\* the items of the batch, in input order
Items == IF call.op = "generate_batch" THEN call.topic_map ELSE call.file_list

EventsOf(ev) == SelectSeq(trace, LAMBDA e : e.ev = ev)

\* what the model is asked for item k of the batch
Invocation(k) ==
    IF call.op = "generate_batch"
    THEN Items[k][1] \o <<"/">> \o (IF Items[k][2] = None THEN <<"N","o","n","e">> ELSE Items[k][2])
    ELSE EventsOf("submit")[k].text

\* the trace holds complete items 1..m in order, then possibly a part of item m+1
InInputOrder ==
    /\ \A ev \in {"read", "submit", "response", "persist"} :
          \A j \in DOMAIN EventsOf(ev) : EventsOf(ev)[j].item = j
    /\ \A j \in DOMAIN EventsOf("submit") : EventsOf("submit")[j].text = Invocation(j)
    /\ \A j \in DOMAIN EventsOf("read") : EventsOf("read")[j].text = Items[j]
    /\ Len(EventsOf("submit")) <= Len(Items)
    /\ Len(EventsOf("persist")) <= Len(EventsOf("response"))
    /\ Len(EventsOf("response")) <= Len(EventsOf("submit"))
    /\ call.op = "edit_batch" => Len(EventsOf("submit")) = Len(EventsOf("read"))

\* a failure is the last thing that happened and has left the batch call
FailureIsFinal ==
    \A p \in DOMAIN trace :
        trace[p].ev = "error" => (p = Len(trace) /\ pc = "raised" /\ ret.exc # "")

\* C1: both batch runners process the items in input order with one model
\* invocation per item, a run without failure makes exactly N invocations,
\* and a failure of item k leaves the batch call at once: nothing is read,
\* submitted or persisted after it.
C1_BatchOrder ==
    /\ [](BatchOp =>
            /\ InInputOrder
            /\ FailureIsFinal
            /\ (pc = "returned" =>
                  /\ Len(EventsOf("submit")) = Len(Items)
                  /\ Len(EventsOf("persist")) = Len(Items)
                  /\ Len(EventsOf("error")) = 0)
            /\ (pc = "raised" => \A p \in DOMAIN trace : trace[p].item <= idx))
    /\ [][(BatchOp /\ pc = "raised") => UNCHANGED <<trace, fs, inflight, pc>>]_vars

\* a batch of MaxBatch items completed its first item and failed in the
\* second, after the model answered
C1_Witness ==
    /\ BatchOp /\ pc = "raised" /\ idx = 2
    /\ Len(Items) = MaxBatch
    /\ Len(EventsOf("persist")) = 1
    /\ Len(EventsOf("response")) = 2
    /\ trace[Len(trace)].ev = "error"

\* C2: a batch whose N items all succeed leaves N persisted files: no
\* persist overwrites the file of an earlier item, whatever (distinct)
\* identifiers the model returned.
C2_CollisionSafe ==
    (/\ call.op = "generate_batch" /\ pc = "returned"
     /\ \A p, q \in DOMAIN EventsOf("response") :
           p # q => EventsOf("response")[p].text # EventsOf("response")[q].text)
    => Cardinality({EventsOf("persist")[p].text : p \in DOMAIN EventsOf("persist")})
         = Len(Items)

\* C3: at most one model request is in flight, and the read and the model
\* request of item k+1 come after the response and the persist of item k.
C3_NoOverlap ==
    BatchOp =>
        /\ Len(inflight) <= 1
        /\ \A p \in DOMAIN trace :
              (trace[p].ev \in {"read", "submit"} /\ trace[p].item > 1) =>
                  \E r, q \in 1..(p - 1) :
                      /\ r < q
                      /\ trace[r].ev = "response" /\ trace[r].item = trace[p].item - 1
                      /\ trace[q].ev = "persist" /\ trace[q].item = trace[p].item - 1

\* the second item of an edit batch is with the model, the first is persisted
C3_Witness ==
    /\ call.op = "edit_batch" /\ pc = "awaiting" /\ idx = 2
    /\ Len(inflight) = 1
    /\ Len(EventsOf("persist")) = 1

(***************************************************************************)
(* Properties of the constructors and of the prompt.                       *)
(***************************************************************************)
\* s with every occurrence of pattern replaced by replacement (the
\* occurrences do not overlap)
Substitute(s, pattern, replacement) ==
    LET MatchAt(p) == /\ p + Len(pattern) - 1 <= Len(s)
                      /\ SubSeq(s, p, p + Len(pattern) - 1) = pattern
    IN  ConcatRange([p \in 1..Len(s) |->
                        IF MatchAt(p) THEN replacement
                        ELSE IF \E q \in 1..(p - 1) : MatchAt(q) /\ p < q + Len(pattern)
                             THEN <<>>
                        ELSE <<s[p]>>], 1, Len(s))

ConstructorReturned == call.op \in {"TrendCardAgent", "TrendCardEditor"} /\ pc = "returned"

\* the keys an override replaces
Overridden == IF call.settings = {} THEN {} ELSE {"model", "temperature"}

OverrideHolds ==
    call.settings # {} =>
        /\ {"model", "temperature"} \subseteq DOMAIN ret.value.config
        /\ ret.value.config["model"] = (CHOOSE o \in call.settings : TRUE).model
        /\ ret.value.config["temperature"] = (CHOOSE o \in call.settings : TRUE).temperature

GenerateDone == call.op = "generate_trend_card" /\ pc # "called"

\* generate_trend_card raised before any request went to the provider
FailedBeforeRequest == pc = "raised" /\ trace = <<>> /\ inflight = <<>>

\* the provider was handed this prompt
Requested(prompt) == trace # <<>> /\ trace[1] = Event("submit", 1, prompt)

RequiredFields == {<<"i","n","d","u","s","t","r","y","_","s","e","g","m","e","n","t">>, <<"t","o","p","i","c">>, <<"c","o","m","p","o","n","e","n","t">>, <<"w","o","r","d","_","l","i","m","i","t">>}

HasPlaceholder(template, name) ==
    \E p \in DOMAIN template :
        /\ p + Len(name) + 1 <= Len(template)
        /\ SubSeq(template, p, p + Len(name) + 1) = <<"{">> \o name \o <<"}">>

\* the template with each of the four placeholders replaced by the str() of
\* the input value
Substituted(template, inputs) ==
    Substitute(Substitute(Substitute(Substitute(template,
        <<"{","i","n","d","u","s","t","r","y","_","s","e","g","m","e","n","t","}">>, inputs.industry_segment),
        <<"{","t","o","p","i","c","}">>, inputs.topic),
        <<"{","c","o","m","p","o","n","e","n","t","}">>, IF inputs.component = None THEN <<"N","o","n","e">> ELSE inputs.component),
        <<"{","w","o","r","d","_","l","i","m","i","t","}">>, IF inputs.word_limit = NoInt THEN <<"N","o","n","e">>
                         ELSE IntStr(CHOOSE n \in inputs.word_limit : TRUE))

\* the braces of the template only delimit placeholders
PlainBraces(template) ==
    \A p \in 1..(Len(template) - 1) :
        ~(template[p] = "{" /\ template[p+1] = "{") /\ ~(template[p] = "}" /\ template[p+1] = "}")

\* C10 as stated: generate fails before any model request when the template
\* lacks one of the four placeholders or the component is absent; otherwise
\* the prompt handed to the provider is the template with the placeholders
\* replaced.
C10_AsStated ==
    (GenerateDone /\ PlainBraces(call.self.prompt_template)) =>
        IF \/ \E name \in RequiredFields : ~HasPlaceholder(call.self.prompt_template, name)
           \/ call.inputs.component = None
        THEN FailedBeforeRequest
        ELSE Requested(Substituted(call.self.prompt_template, call.inputs))

\* C10 amended: a template that lacks some of the four placeholders is no
\* error and an absent component (or word limit) is rendered as "None";
\* generate fails before any model request exactly when the template has a
\* placeholder that is none of the four or an unmatched brace; otherwise the
\* prompt handed to the provider is the template with each placeholder it
\* has replaced by the input value.
C10_PromptSubstitution ==
    (GenerateDone /\ PlainBraces(call.self.prompt_template)) =>
        LET expected == Substituted(call.self.prompt_template, call.inputs)
        IN  /\ IF "{" \in Range(expected) \/ "}" \in Range(expected)
               THEN FailedBeforeRequest /\ ret.exc \in {"KeyError", "ValueError"}
               ELSE Requested(expected)
            /\ (/\ call.self.prompt_template = ExampleTemplate
                /\ call.inputs.component = <<"E","c","o","n","o","m","i","c">>
                /\ call.inputs.word_limit = {30})
               => Requested(<<"F","i","n","t","e","c","h","|","E","m","b","e","d","d","e","d"," ","F","i","n","a","n","c","e","|","E","c","o","n","o","m","i","c","|","3","0">>)

\* a prompt went to the provider for a template without the component
\* placeholder and an input without component
C10_Witness ==
    /\ call.op = "generate_trend_card" /\ pc = "awaiting"
    /\ call.self.prompt_template = <<"{","t","o","p","i","c","}"," ","i","n"," ","{","w","o","r","d","_","l","i","m","i","t","}">>
    /\ call.inputs.component = None
    /\ inflight = <<<<"E","m","b","e","d","d","e","d"," ","F","i","n","a","n","c","e"," ","i","n"," ","3","0">>>>

(***************************************************************************)
(* Properties of the returned card.                                        *)
(***************************************************************************)
\* generate_trend_card has returned a card for an input with a component
GenerateReturned ==
    /\ call.op = "generate_trend_card" /\ pc = "returned"
    /\ call.inputs.component # None

\* C11: for an input whose component is supplied, the card generate returns
\* has card_identifier equal to the input's topic and component joined by
\* " / ", whatever schema-valid card the provider returned.
C11_IdentifierFromInput ==
    GenerateReturned =>
        ret.value.card_identifier = call.inputs.topic \o <<" ","/"," ">> \o call.inputs.component

(***************************************************************************)
(* Properties of progress reporting.  Control is everything of a batch run *)
(* but what it printed and its report counter.  ControlSuccessor states    *)
(* the controls a batch can move to from the current one without the       *)
(* verbose flag, the printed output and the counter; the provider's answer *)
(* and the filesystem's outcomes range over all they can be.               *)
(***************************************************************************)
Control ==
    [pc |-> pc, ret |-> ret, idx |-> idx, inflight |-> inflight, trace |-> trace, fs |-> fs]

Left(p, r, k, tr, fsys) ==
    [pc |-> p, ret |-> r, idx |-> k, inflight |-> <<>>, trace |-> tr, fs |-> fsys]

Suspended(k, request, tr, fsys) ==
    [pc |-> "awaiting", ret |-> Ok(None), idx |-> k, inflight |-> <<request>>,
     trace |-> tr \o <<Event("submit", k, request)>>, fs |-> fsys]

\* where the batch is after it entered item k with filesystem fsys and
\* history tr
Entered(k, fsys, tr) ==
    IF k > Len(Items) THEN {Left("returned", Ok(None), k, tr, fsys)}
    ELSE IF call.op = "generate_batch"
    THEN LET prompt == FormatPrompt(call.self.prompt_template,
                          TrendCardInput(call.industry_segment, Items[k][1], Items[k][2],
                                         call.word_limit))
         IN  IF prompt.exc # ""
             THEN {Left("raised", prompt, k, tr \o <<Event("error", k, <<>>)>>, fsys)}
             ELSE {Suspended(k, prompt.value, tr, fsys)}
    ELSE {LET text == read_file(Items[k], fsys, io_ok)
          IN  IF text.exc # ""
              THEN Left("raised", Err(text.exc), k, tr \o <<Event("error", k, <<>>)>>, fsys)
              ELSE Suspended(k, text.value, tr \o <<Event("read", k, Items[k])>>, fsys)
          : io_ok \in BOOLEAN}

\* where the batch is after the provider answered item idx with card and
\* the filesystem behaved as io: the card is persisted as it was answered
Answered(card, io) ==
    LET saved == save_to_file(card,
                     IF call.op = "edit_batch" THEN call.file_name_suffix ELSE None,
                     MdExt, call.target_dir, fs, io)
        tr == trace \o <<Event("response", idx, card.card_identifier)>>
    IN  IF saved.exc # ""
        THEN {Left("raised", Err(saved.exc), idx, tr \o <<Event("error", idx, <<>>)>>, saved.fs)}
        ELSE Entered(idx + 1, saved.fs, tr \o <<Event("persist", idx, saved.value)>>)

\* the cards whose identifier is the one the step records as the answer to
\* item idx
AnsweredCards ==
    {card \in ProviderCards :
        /\ Len(trace') > Len(trace)
        /\ trace'[Len(trace) + 1] = Event("response", idx, card.card_identifier)}

\* the step takes the control to one of its successors
ControlSuccessor ==
    CASE pc = "called" -> Control' \in Entered(1, fs, trace)
      [] pc = "awaiting" ->
           \/ \E exc \in {"UnexpectedModelBehavior", "ModelHTTPError"} :
                 Control' = Left("raised", Err(exc), idx,
                                 trace \o <<Event("error", idx, <<>>)>>, fs)
           \/ \E card \in AnsweredCards, io \in IoOutcomes : Control' \in Answered(card, io)
      [] OTHER -> FALSE

\* C12: progress reporting never affects control flow.  Every step of
\* generate_batch and edit_batch takes the reads, model invocations,
\* responses, persisted files (names and contents) and the outcome from
\* where they were to a successor that is determined by the call's other
\* arguments, the provider's answer and the filesystem alone, the same for
\* verbose=True and verbose=False; the card is persisted as answered,
\* whatever its word counts; and the report counter and the printed output
\* change only in a verbose run.
C12_VerboseIsLogging ==
    [][BatchOp =>
          /\ ControlSuccessor
          /\ ~call.verbose => UNCHANGED <<out, seq_i>>
          /\ call' = call]_vars

\* a verbose batch of two items returned after it reported both
C12_Witness ==
    /\ BatchOp /\ call.verbose /\ pc = "returned"
    /\ Len(Items) = 2
    /\ Len(EventsOf("persist")) = 2
    /\ seq_i = 3
    /\ Len(out) = 7

(***************************************************************************)
(* Properties of a batch that failed.                                      *)
(***************************************************************************)
\* the batch was left because the read or the model call of item idx failed
\* (the model did not answer item idx)
FailedInReadOrModel ==
    /\ BatchOp /\ pc = "raised"
    /\ Len(EventsOf("response")) < idx

\* the file persisted for item j of the run
PersistedPath(j) == PathJoin(call.target_dir, EventsOf("persist")[j].text)

\* the content written for item j: the Markdown of the card the model
\* answered item j with, line feeds written as the platform's line separator
WrittenFor(j) == TranslateOut(MarkdownOf(PlainCard(EventsOf("response")[j].text)))

\* the files there were when the batch was called
FilesAtCall == IF call.op = "edit_batch" THEN InputFs.files ELSE EmptyFs.files

\* C13: no rollback on batch failure.  When a batch ends because the read
\* or the model call of item k fails, every file persisted for items
\* 1..k-1 of the run is present with the content written for it, and
\* nothing has been written for item k or a later item.
C13_NoRollback ==
    FailedInReadOrModel =>
        /\ Len(EventsOf("persist")) = idx - 1
        /\ \A j \in 1..(idx - 1) :
              /\ FileExists(fs, PersistedPath(j))
              /\ fs.files[PersistedPath(j)] = WrittenFor(j)
        /\ DOMAIN fs.files = DOMAIN FilesAtCall \cup {PersistedPath(j) : j \in 1..(idx - 1)}

====
